---- MODULE Spec2Model ----
(***************************************************************************)
(* The AR activation feature of the model-viewer element                   *)
(* (packages/model-viewer/src/features/ar.ts): the Mode Selector           *)
(* ([$selectARMode]), activateAR(), the WebXR entry path                   *)
(* ([$enterARWithWebXR]) and the Scene Viewer fallback detection           *)
(* ([$openSceneViewer] / undoHashChange).                                  *)
(*                                                                         *)
(* JavaScript is single-threaded: every action below is one run of a       *)
(* handler or of the continuation of an async function, from the point     *)
(* where it is entered to its next await (or its end).                     *)
(***************************************************************************)
EXTENDS Naturals, Integers, Sequences, FiniteSets, Bags, TLC

\* ---------------------------------------------------------------- bounds
\* Mode Selector runs of one element suspended on supportsPresentation().
MaxRuns == 2
\* activateAR() calls of one element inside [$enterARWithWebXR].
MaxActs == 1
\* 'hashchange' listeners armed and not yet invoked.
MaxListeners == 2
\* toURL() calls on one intent object.
MaxCalls == 2

\* ------------------------------------------------------------- constants
\* The elements of the page; the blocked flags are shared by all of them.
Elements == {"mv1"}

noArViewerSigil == "#model-viewer-no-ar-fallback"

\* The values self.location.hash has when a 'hashchange' event is
\* dispatched: the sigil, or some unrelated hash.
Hashes == {noArViewerSigil, "#other"}

ARMode == {"quick-look", "scene-viewer", "webxr", "none"}

\* The values given to the ios-src attribute: none (null), a relative
\* reference, an absolute URL.
NoSrc == "null"
RelSrc == "model.usdz"
AbsSrc == "https://example.com/model.usdz"
IosSrcs == {NoSrc, RelSrc, AbsSrc}

\* The ar-modes attribute, as its sequence of space-separated tokens.
DEFAULT_AR_MODES == <<"webxr", "scene-viewer", "quick-look">>

ArModesInputs ==
    { DEFAULT_AR_MODES,
      <<"webxr", "ar">>,
      <<"quick-look", "webxr", "quick-look">> }

\* -------------------------------------------------------- pure functions
RECURSIVE Dedup(_, _)
\* deserializeARModes: the tokens that name a mode, in order, each once.
Dedup(tokens, seen) ==
    IF tokens = <<>> THEN <<>>
    ELSE IF Head(tokens) \in ARMode /\ Head(tokens) \notin seen
         THEN <<Head(tokens)>> \o Dedup(Tail(tokens), seen \cup {Head(tokens)})
         ELSE Dedup(Tail(tokens), seen)

deserializeARModes(tokens) == Dedup(tokens, {})

\* ----------------------------------------------------------------- state
VARIABLES
    el,                    \* element -> the fields of ARModelViewerElement
    isWebXRBlocked,        \* module-level flag, shared by every element
    isSceneViewerBlocked,  \* module-level flag, shared by every element
    platform,              \* IS_*_CANDIDATE and the answer of the WebXR probe
    ev,                    \* what the last step did (observation only)
    intent                 \* an intent object and what its toURL() returned

vars == <<el, isWebXRBlocked, isSceneViewerBlocked, platform, ev, intent>>

\* The static platform flags imported from constants.js, and the value
\* arRenderer.supportsPresentation() resolves to on this device.
\* Scene Viewer is Android's and AR Quick Look is iOS's, so no device has
\* both; the probe answers true only on a WebXR-AR-capable device.
Platforms ==
    { p \in [ webxr : BOOLEAN, sceneViewer : BOOLEAN, quickLook : BOOLEAN,
              xr : BOOLEAN ] :
        /\ ~(p.sceneViewer /\ p.quickLook)
        /\ p.xr => p.webxr }

\* A faulty variant of canActivateAR: the value of the field
\* [$canActivateAR], which nothing assigns.
canActivateARField(s) == FALSE

\* get canActivateAR()
canActivateAR(s) == s.arMode # "none"

\* A Mode Selector run that is suspended on supportsPresentation(): the
\* local array arModes it iterates and the index of its 'webxr' entry.
RunRec(list, idx) == [list |-> list, idx |-> idx]

\* What a step observed of the Mode Selector run it executed (the last one,
\* when it executed several).
\*   kind: "none" no run; "sync" a run started and completed in the step;
\*         "suspended" a run started and reached the probe;
\*         "resumed" a suspended run was resumed and completed
\*   list: the array the run iterates; from..idx: the entries whose gate the
\*         step evaluated; mode: the mode the run left; ar: this.ar as the
\*         run read it
NoRun ==
    [kind |-> "none", list |-> <<>>, from |-> 0, idx |-> 0, mode |-> "none",
     ar |-> FALSE]

NoEv ==
    [ e |-> "none",        \* the element whose handler or continuation ran
      run |-> NoRun,
      presents |-> 0,      \* calls of arRenderer.present()
      stops |-> 0,         \* calls of arRenderer.stopPresenting()
      blocks |-> 0,        \* assignments isWebXRBlocked = true
      failed |-> 0,        \* 'ar-status' events with status 'failed'
      backs |-> 0,         \* calls of history.back()
      reruns |-> 0,        \* Mode Selector runs started by undoHashChange
      called |-> "no",     \* this[$arMode] as an activateAR() call of the
                           \* host or of the click handler read it
      clicks |-> "none",   \* the mode whose intent URL the anchor opened
      rejected |-> "none", \* "call": the activateAR() promise of the step
                           \* rejected; "nested": that of the re-attempt
      retries |-> 0,       \* activateAR() calls made by the catch block
      retryMode |-> "none",\* this[$arMode] as the re-attempt read it
      retrySel |-> "none", \* the mode the awaited Mode Selector run left
      hash |-> "none",     \* the hash of the 'hashchange' event dispatched
      waited |-> FALSE,    \* present() was called after the wait for 'load'
      settled |-> "no"     \* how present() settled for the call that left
                           \* its try statement: "resolved", "rejected"
    ]

\* No intent object under observation.
NoIntent == [kind |-> "none"]

\* ------------------------------------------------------- Mode Selector
\* The gate of 'webxr' up to the await: the conjuncts evaluated before
\* supportsPresentation() is called (ar.ts line 390).
WebXRGate(value, wb) ==
    value = "webxr" /\ platform.webxr /\ ~wb

\* A faulty variant of SceneViewerGate: the test of isSceneViewerBlocked is
\* missing.
SceneViewerGateNoBlock(value, svb) ==
    value = "scene-viewer" /\ platform.sceneViewer

\* ar.ts lines 395-396
SceneViewerGate(value, svb) ==
    value = "scene-viewer" /\ platform.sceneViewer /\ ~svb

\* A faulty variant of QuickLookGate: the test of ios-src is missing.
QuickLookGateNoSrc(value, ios) ==
    value = "quick-look" /\ platform.quickLook

\* ar.ts lines 400-401
QuickLookGate(value, ios) ==
    value = "quick-look" /\ ios # NoSrc /\ platform.quickLook

RECURSIVE ScanFrom(_, _, _, _, _)
\* The for loop of [$selectARMode] from entry i on, up to its break, its
\* end, or the await of the probe.
\*   kind "done": the loop ended and left mode; "probe": the loop is
\*   suspended at entry idx. idx is the last entry whose gate was evaluated.
ScanFrom(list, i, ios, wb, svb) ==
    IF i > Len(list)
    THEN [kind |-> "done", mode |-> "none", idx |-> Len(list)]
    ELSE IF WebXRGate(list[i], wb)
    THEN [kind |-> "probe", mode |-> "none", idx |-> i]
    ELSE IF SceneViewerGate(list[i], svb)
    THEN [kind |-> "done", mode |-> "scene-viewer", idx |-> i]
    ELSE IF QuickLookGate(list[i], ios)
    THEN [kind |-> "done", mode |-> "quick-look", idx |-> i]
    ELSE ScanFrom(list, i + 1, ios, wb, svb)

\* A faulty variant of ResumeScan: no break after the 'webxr' match, so a
\* later entry whose gate holds overwrites it.
ResumeScanNoBreak(list, idx, answer, ios, wb, svb) ==
    LET rest == ScanFrom(list, idx + 1, ios, wb, svb)
    IN  IF answer /\ rest.mode = "none"
        THEN [kind |-> "done", mode |-> "webxr", idx |-> idx]
        ELSE rest

\* A faulty variant of ResumeScan: after a positive answer the loop
\* evaluates the same entry again instead of taking it.
ResumeScanSameEntry(list, idx, answer, ios, wb, svb) ==
    ScanFrom(list, IF answer THEN idx ELSE idx + 1, ios, wb, svb)

\* The loop after supportsPresentation() resolved to answer at entry idx.
ResumeScan(list, idx, answer, ios, wb, svb) ==
    IF answer
    THEN [kind |-> "done", mode |-> "webxr", idx |-> idx]
    ELSE ScanFrom(list, idx + 1, ios, wb, svb)

\* A faulty variant of FailedEvents: the test of the class 'enabled' is
\* missing.
FailedEventsUnconditional(s, mode) ==
    IF ~canActivateAR([s EXCEPT !.arMode = mode]) THEN 1 ELSE 0

\* The 'failed' status events the end of a run emits (ar.ts 412-421).
FailedEvents(s, mode) ==
    IF ~canActivateAR([s EXCEPT !.arMode = mode]) /\ s.enabled THEN 1 ELSE 0

\* A faulty variant of Finish: the branch that takes the class 'enabled'
\* and the click listener off the button is missing.
FinishNoDisable(s, mode) ==
    LET s1 == [s EXCEPT !.arMode = mode]
    IN  IF canActivateAR(s1)
        THEN [s1 EXCEPT !.enabled = TRUE, !.clickL = TRUE]
        ELSE s1

\* A faulty variant of Finish: the branch that enables the button does not
\* attach the click listener.
FinishNoListener(s, mode) ==
    LET s1 == [s EXCEPT !.arMode = mode]
    IN  IF canActivateAR(s1)
        THEN [s1 EXCEPT !.enabled = TRUE]
        ELSE IF s.enabled
        THEN [s1 EXCEPT !.enabled = FALSE, !.clickL = FALSE]
        ELSE s1

\* The end of [$selectARMode], after the loop (ar.ts 408-422).
Finish(s, mode) ==
    LET s1 == [s EXCEPT !.arMode = mode]
    IN  IF canActivateAR(s1)
        THEN [s1 EXCEPT !.enabled = TRUE, !.clickL = TRUE]
        ELSE IF s.enabled
        THEN [s1 EXCEPT !.enabled = FALSE, !.clickL = FALSE]
        ELSE s1

\* A faulty variant of ReadsAr: the run does not test this.ar.
ReadsArAlways(s) == TRUE

\* Whether a run that starts now reads this.ar as true (ar.ts 383).
ReadsAr(s) == s.ar

\* The scan a run that starts now performs.
StartScan(s, wb, svb) ==
    IF ReadsAr(s)
    THEN ScanFrom(s.modes, 1, s.iosSrc, wb, svb)
    ELSE [kind |-> "done", mode |-> "none", idx |-> 0]

\* [$selectARMode]() from its call to its first await or its end.
selectARMode(s, wb, svb) ==
    LET s0 == [s EXCEPT !.arMode = "none"]
        r  == StartScan(s, wb, svb)
    IN  IF r.kind = "probe"
        THEN [s0 EXCEPT !.runs = @ (+) SetToBag({RunRec(s.modes, r.idx)})]
        ELSE Finish(s0, r.mode)

\* What the step observes of that run.
SelectObs(s, wb, svb) ==
    LET r == StartScan(s, wb, svb)
    IN  [kind |-> IF r.kind = "probe" THEN "suspended" ELSE "sync",
         list |-> IF ReadsAr(s) THEN s.modes ELSE <<>>,
         from |-> IF ReadsAr(s) THEN 1 ELSE 0,
         idx |-> r.idx, mode |-> r.mode, ar |-> ReadsAr(s)]

SelectFailed(s, wb, svb) ==
    LET r == StartScan(s, wb, svb)
    IN  IF r.kind = "probe" THEN 0 ELSE FailedEvents(s, r.mode)

\* The tables of an element stay within the bounds: a step that would
\* overfill one is not taken.
Fits(s) ==
    /\ BagCardinality(s.runs) <= MaxRuns
    /\ BagCardinality(s.acts) <= MaxActs
    /\ s.hashL <= MaxListeners

\* An activateAR() call inside [$enterARWithWebXR], by the await it is at:
\*   "waitLoad"    await waitForEvent(this, 'load')         (ar.ts 431)
\*   "loadFired"   the load event fired, continuation not yet run
\*   "presenting"  await arRenderer.present(this[$scene])   (ar.ts 440)
\*   "stopping"    await arRenderer.stopPresenting()        (ar.ts 444)
\*   "awaitSelect" await this[$selectARMode]()              (ar.ts 446)
\* sel (pc "awaitSelect") is the mode the awaited run left, or "superseded"
\* once another run started on the element during the await.
ActRec(pc, sel) == [pc |-> pc, sel |-> sel]

\* The bag with every copy of a replaced by a copy of b.
MoveAll(bag, a, b) ==
    IF BagIn(a, bag)
    THEN (bag (-) [x \in {a} |-> CopiesIn(a, bag)])
            (+) [x \in {b} |-> CopiesIn(a, bag)]
    ELSE bag

RECURSIVE MoveEach(_, _, _)
MoveEach(bag, S, b) ==
    IF S = {} THEN bag
    ELSE LET a == CHOOSE x \in S : TRUE
         IN  MoveEach(MoveAll(bag, a, b), S \ {a}, b)

\* A run started by update() supersedes what an awaited run left.
Supersede(s) ==
    [s EXCEPT !.acts = MoveEach(@, {ActRec("awaitSelect", m) : m \in ARMode},
                                ActRec("awaitSelect", "superseded"))]

\* What a step that started one run on s observes.
RunEv(e, s, wb, svb) ==
    [NoEv EXCEPT !.e = e,
                 !.run = SelectObs(s, wb, svb),
                 !.failed = SelectFailed(s, wb, svb)]

\* ----------------------------------------------------------------- Init
InitElement ==
    [ ar       |-> FALSE,
      arModes  |-> DEFAULT_AR_MODES,
      iosSrc   |-> NoSrc,
      updated  |-> FALSE,      \* the first update() has run
      modes    |-> <<>>,       \* this[$arModes]
      arMode   |-> "none",     \* this[$arMode]
      enabled  |-> FALSE,      \* .ar-button has class 'enabled'
      clickL   |-> FALSE,      \* .ar-button has the click listener
      loaded   |-> FALSE,      \* this[$loaded]
      preload  |-> FALSE,      \* this[$preload]
      runs     |-> EmptyBag,   \* Mode Selector runs suspended on the probe
      acts     |-> EmptyBag,   \* activateAR() calls in [$enterARWithWebXR]
      hashL    |-> 0 ]         \* armed undoHashChange listeners

Init ==
    /\ el = [e \in Elements |-> InitElement]
    /\ isWebXRBlocked = FALSE
    /\ isSceneViewerBlocked = FALSE
    /\ platform \in Platforms
    /\ ev = NoEv
    /\ intent = NoIntent

\* ----------------------------------------------------------- scheduling
\* The continuation of an await whose promise is already settled (the wait
\* for 'load' once the event fired, the await of a Mode Selector run that
\* met no probe) is a microtask: it runs before the browser dispatches its
\* next task (the settling of a renderer promise, the load of a model, a
\* click, a 'hashchange'). Code of the host (a property change followed by
\* update(), a call of activateAR()) may still run before it.
Continuations == {"loadFired", "awaitSelect"}

MicrotaskPending ==
    \E e \in Elements : \E a \in BagToSet(el[e].acts) : a.pc \in Continuations

\* The browser dispatches its next task.
TaskTurn == ~MicrotaskPending

\* -------------------------------------------------------------- actions
Frame == UNCHANGED <<isWebXRBlocked, isSceneViewerBlocked, platform, intent>>

\* update(changedProperties) for new values of ar, ar-modes and ios-src
\* (ar.ts 317-339). The first update of an element reports every property
\* it was given as changed; a later one reports the one property that was
\* set since.
Update(e, ar, tokens, ios) ==
    LET s == el[e]
        changes == (IF ar # s.ar THEN {"ar"} ELSE {})
                      \cup (IF tokens # s.arModes THEN {"arModes"} ELSE {})
                      \cup (IF ios # s.iosSrc THEN {"iosSrc"} ELSE {})
        s1 == [s EXCEPT !.ar = ar, !.arModes = tokens, !.iosSrc = ios,
                        !.updated = TRUE,
                        !.modes = IF ~s.updated \/ "arModes" \in changes
                                  THEN deserializeARModes(tokens) ELSE @]
        s2 == Supersede(selectARMode(s1, isWebXRBlocked, isSceneViewerBlocked))
    IN  /\ IF s.updated THEN Cardinality(changes) = 1 ELSE TRUE
        /\ Fits(s2)
        /\ el' = [el EXCEPT ![e] = s2]
        /\ ev' = RunEv(e, s1, isWebXRBlocked, isSceneViewerBlocked)
        /\ Frame

\* supportsPresentation() resolves for one suspended run, which continues
\* to its end, or to the await of the probe at a later 'webxr' entry
\* (ar.ts 391-422).
ProbeResolves(e, run) ==
    LET s == el[e]
        r == ResumeScan(run.list, run.idx, platform.xr, s.iosSrc,
                        isWebXRBlocked, isSceneViewerBlocked)
        s1 == [s EXCEPT !.runs = @ (-) SetToBag({run})]
        again == r.kind = "probe"
    IN  /\ TaskTurn
        /\ BagIn(run, s.runs)
        /\ el' = [el EXCEPT ![e] =
                    IF again
                    THEN [s1 EXCEPT !.runs = @ (+) SetToBag({RunRec(run.list, r.idx)})]
                    ELSE Finish(s1, r.mode)]
        /\ ev' = [NoEv EXCEPT !.e = e,
                    !.failed = IF again THEN 0 ELSE FailedEvents(s1, r.mode),
                    !.run = [kind |-> IF again THEN "probedAgain" ELSE "resumed",
                             list |-> run.list,
                             from |-> run.idx, idx |-> r.idx,
                             mode |-> r.mode, ar |-> TRUE]]
        /\ Frame

\* ------------------------------------------------------------ activation
AddAct(s, a) == [s EXCEPT !.acts = @ (+) SetToBag({a})]
DelAct(s, a) == [s EXCEPT !.acts = @ (-) SetToBag({a})]

\* The try block of [$enterARWithWebXR] up to the await of present()
\* (ar.ts 435-440).
TryPresent(s) ==
    AddAct([s EXCEPT !.clickL = FALSE], ActRec("presenting", "none"))

\* A faulty variant of MustWaitForLoad: no wait for the model.
MustWaitForLoadNever(s) == FALSE

\* Whether [$enterARWithWebXR] waits for the model (ar.ts 428).
MustWaitForLoad(s) == ~s.loaded

\* [$enterARWithWebXR]() from its call to its first await (ar.ts 425-440).
enterARWithWebXR(s) ==
    IF MustWaitForLoad(s)
    THEN AddAct([s EXCEPT !.preload = TRUE], ActRec("waitLoad", "none"))
    ELSE TryPresent(s)

\* [$openSceneViewer]: arms a once-listener for 'hashchange' and clicks the
\* anchor (ar.ts 461-510).
openSceneViewer(s) == [s EXCEPT !.hashL = @ + 1]

\* new URL(this.iosSrc!) throws a TypeError unless ios-src is an absolute
\* URL (ar.ts 358). (src is taken to be an absolute URL, with which
\* new URL(this.src!) at ar.ts 370 does not throw.)
ActivateThrows(s) == s.arMode = "quick-look" /\ s.iosSrc # AbsSrc

\* A faulty variant of activateAR: the default case falls into the Scene
\* Viewer case.
activateARFallthrough(s) ==
    CASE s.arMode = "quick-look"   -> s
      [] s.arMode = "webxr"        -> enterARWithWebXR(s)
      [] OTHER                     -> openSceneViewer(s)

\* activateAR() from its call to its first await or its end (ar.ts 347-379).
activateAR(s) ==
    CASE s.arMode = "quick-look"   -> s
      [] s.arMode = "webxr"        -> enterARWithWebXR(s)
      [] s.arMode = "scene-viewer" -> openSceneViewer(s)
      [] OTHER                     -> s

\* The calls of present() that part of activateAR() makes.
ActivatePresents(s) ==
    IF s.arMode = "webxr" /\ ~MustWaitForLoad(s) THEN 1 ELSE 0

\* The mode whose intent that part of activateAR() opened with the anchor.
ActivateClicks(s) ==
    IF s.arMode = "scene-viewer" \/ (s.arMode = "quick-look" /\ ~ActivateThrows(s))
    THEN s.arMode ELSE "none"

\* What a step that called activateAR() on s observes.
ActivateEv(e, s) ==
    [NoEv EXCEPT !.e = e,
                 !.called = s.arMode,
                 !.presents = ActivatePresents(s),
                 !.clicks = ActivateClicks(s),
                 !.rejected = IF ActivateThrows(s) THEN "call" ELSE "none"]

\* The host calls activateAR().
ActivateAR(e) ==
    LET s == el[e]
    IN  /\ Fits(activateAR(s))
        /\ el' = [el EXCEPT ![e] = activateAR(s)]
        /\ ev' = ActivateEv(e, s)
        /\ Frame

\* A click on the AR button runs [$onARButtonContainerClick], which calls
\* activateAR() (ar.ts 279-282).
Click(e) ==
    LET s == el[e]
    IN  /\ TaskTurn
        /\ s.clickL
        /\ Fits(activateAR(s))
        /\ el' = [el EXCEPT ![e] = activateAR(s)]
        /\ ev' = ActivateEv(e, s)
        /\ Frame

\* The model finishes loading: this[$loaded] becomes true and the 'load'
\* event resolves every pending waitForEvent(this, 'load').
ModelLoad(e) ==
    LET s == el[e]
    IN  /\ TaskTurn
        /\ ~s.loaded
        /\ el' = [el EXCEPT ![e] =
                    [s EXCEPT !.loaded = TRUE,
                              !.acts = MoveAll(@, ActRec("waitLoad", "none"),
                                                  ActRec("loadFired", "none"))]]
        /\ ev' = [NoEv EXCEPT !.e = e]
        /\ Frame

\* [$enterARWithWebXR] continues after the load event (ar.ts 432-440).
AfterLoad(e) ==
    LET s == el[e]
        a == ActRec("loadFired", "none")
    IN  /\ BagIn(a, s.acts)
        /\ el' = [el EXCEPT ![e] =
                    TryPresent([DelAct(s, a) EXCEPT !.preload = FALSE])]
        /\ ev' = [NoEv EXCEPT !.e = e, !.presents = 1, !.waited = TRUE]
        /\ Frame

\* A faulty variant of FinallyReruns: the re-run is the last statement of
\* the try block, which a rejection of present() skips.
FinallyRerunsOnSuccess(failed) == ~failed

\* Whether [$enterARWithWebXR] starts a Mode Selector run as it leaves its
\* try statement, with the try block failed or not: the call is in the
\* finally block (ar.ts 448-450).
FinallyReruns(failed) == TRUE

\* The finally block on element state s.
FinallySelect(s, failed) ==
    IF FinallyReruns(failed)
    THEN selectARMode(s, isWebXRBlocked, isSceneViewerBlocked)
    ELSE s

FinallyEv(e, s, failed) ==
    IF FinallyReruns(failed)
    THEN RunEv(e, s, isWebXRBlocked, isSceneViewerBlocked)
    ELSE [NoEv EXCEPT !.e = e]

\* present() resolves: the finally block starts a Mode Selector run and
\* the activateAR() promise resolves (ar.ts 448-450).
PresentOk(e) ==
    LET s == el[e]
        a == ActRec("presenting", "none")
        s1 == DelAct(s, a)
        s2 == FinallySelect(s1, FALSE)
    IN  /\ TaskTurn
        /\ BagIn(a, s.acts)
        /\ Fits(s2)
        /\ el' = [el EXCEPT ![e] = s2]
        /\ ev' = [FinallyEv(e, s1, FALSE) EXCEPT !.settled = "resolved"]
        /\ Frame

\* present() rejects: the catch block calls stopPresenting() and awaits it
\* (ar.ts 441-444).
PresentFail(e) ==
    LET s == el[e]
        a == ActRec("presenting", "none")
    IN  /\ TaskTurn
        /\ BagIn(a, s.acts)
        /\ el' = [el EXCEPT ![e] = AddAct(DelAct(s, a), ActRec("stopping", "none"))]
        /\ ev' = [NoEv EXCEPT !.e = e, !.stops = 1]
        /\ Frame

\* A faulty variant of BlockedAfterFailure: the catch block leaves the flag.
BlockedAfterFailureUnset == isWebXRBlocked

\* The value the catch block gives isWebXRBlocked before it re-runs the
\* Mode Selector (ar.ts 445).
BlockedAfterFailure == TRUE

\* arRenderer.stopPresenting() handles the errors of ending the session
\* itself: its promise does not reject.
stopPresentingResolves == TRUE

\* stopPresenting() resolves: the catch block blocks WebXR, starts a Mode
\* Selector run and awaits it (ar.ts 445-446).
StopDone(e) ==
    LET s == el[e]
        a == ActRec("stopping", "none")
        wb == BlockedAfterFailure
        s1 == selectARMode(DelAct(s, a), wb, isSceneViewerBlocked)
        s2 == AddAct(s1, ActRec("awaitSelect", s1.arMode))
    IN  /\ TaskTurn
        /\ stopPresentingResolves
        /\ BagIn(a, s.acts)
        /\ Fits(s2)
        /\ isWebXRBlocked' = wb
        /\ el' = [el EXCEPT ![e] = s2]
        /\ ev' = [RunEv(e, s, wb, isSceneViewerBlocked) EXCEPT !.blocks = 1]
        /\ UNCHANGED <<isSceneViewerBlocked, platform, intent>>

\* A faulty variant of RetryRejection: the catch block awaits the
\* re-attempt, whose rejection becomes that of the activateAR() call.
RetryRejectionAwaited(s) == IF ActivateThrows(s) THEN "call" ELSE "none"

\* What becomes of a rejection of the re-attempt: the catch block does not
\* await this.activateAR(), so it stays with the re-attempt's own promise
\* (ar.ts 447).
RetryRejection(s) == IF ActivateThrows(s) THEN "nested" ELSE "none"

\* The number of activateAR() calls the catch block makes (ar.ts 447).
RetryCalls == 1

RECURSIVE ActivateTimes(_, _)
ActivateTimes(s, n) ==
    IF n = 0 THEN s ELSE ActivateTimes(activateAR(s), n - 1)

\* The awaited run is over: the catch block re-attempts activateAR(), the
\* finally block starts a Mode Selector run, and the activateAR() promise
\* resolves (ar.ts 447-450).
Retry(e) ==
    LET s == el[e]
        a == CHOOSE x \in BagToSet(s.acts) : x.pc = "awaitSelect"
        s1 == DelAct(s, a)
        s2 == ActivateTimes(s1, RetryCalls)
        s3 == FinallySelect(s2, TRUE)
    IN  /\ \E x \in BagToSet(s.acts) : x.pc = "awaitSelect"
        /\ Fits(s2) /\ Fits(s3)
        /\ el' = [el EXCEPT ![e] = s3]
        /\ ev' = [FinallyEv(e, s2, TRUE) EXCEPT
                    !.settled = "rejected",
                    !.retries = RetryCalls,
                    !.retryMode = s1.arMode,
                    !.retrySel = a.sel,
                    !.presents = RetryCalls * ActivatePresents(s1),
                    !.clicks = ActivateClicks(s1),
                    !.rejected = RetryRejection(s1)]
        /\ Frame

\* -------------------------------------------- Scene Viewer fallback
RECURSIVE SelectTimes(_, _, _, _)
\* n Mode Selector runs started one after the other.
SelectTimes(s, n, wb, svb) ==
    IF n = 0 THEN s
    ELSE SelectTimes(selectARMode(s, wb, svb), n - 1, wb, svb)

RECURSIVE FailedTimes(_, _, _, _)
FailedTimes(s, n, wb, svb) ==
    IF n = 0 THEN 0
    ELSE SelectFailed(s, wb, svb)
            + FailedTimes(selectARMode(s, wb, svb), n - 1, wb, svb)

\* A faulty variant of IsFallbackHash: the listener does not compare the
\* hash with the sigil.
IsFallbackHashAny(h) == TRUE

\* Whether undoHashChange takes the hash for the fallback (ar.ts 490).
IsFallbackHash(h) == h = noArViewerSigil

\* The listeners a 'hashchange' event leaves armed: each was added with
\* {once: true} (ar.ts 504).
ListenersAfterEvent(n) == 0

\* Every undoHashChange armed by element s runs for a 'hashchange' event
\* with location.hash = h (ar.ts 489-502).
undoHashChange(s, h, wb) ==
    IF IsFallbackHash(h)
    THEN SelectTimes([s EXCEPT !.hashL = ListenersAfterEvent(@)],
                     s.hashL, wb, TRUE)
    ELSE [s EXCEPT !.hashL = ListenersAfterEvent(@)]

RECURSIVE Sum(_, _)
Sum(f, S) ==
    IF S = {} THEN 0
    ELSE LET x == CHOOSE y \in S : TRUE IN f[x] + Sum(f, S \ {x})

\* The browser changes location.hash to h and dispatches 'hashchange' to
\* the armed listeners; self.location.hash is h while they run. (With no
\* listener armed the event runs no code of the element.)
HashChange(h) ==
    LET armed == {e \in Elements : el[e].hashL > 0}
        hit == IsFallbackHash(h)
        n == [e \in Elements |-> IF IsFallbackHash(h) THEN el[e].hashL ELSE 0]
        new == [e \in Elements |-> undoHashChange(el[e], h, isWebXRBlocked)]
        last == CHOOSE e \in Elements : armed # {} => e \in armed
        pre == SelectTimes([el[last] EXCEPT !.hashL = ListenersAfterEvent(@)],
                           n[last] - 1, isWebXRBlocked, TRUE)
    IN  /\ TaskTurn
        /\ armed # {}
        /\ \A e \in Elements : Fits(new[e])
        /\ isSceneViewerBlocked' = (isSceneViewerBlocked \/ hit)
        /\ el' = new
        /\ ev' = IF hit
                 THEN [RunEv(last, pre, isWebXRBlocked, TRUE) EXCEPT
                         !.failed = Sum([e \in Elements |->
                                           FailedTimes([el[e] EXCEPT !.hashL = ListenersAfterEvent(@)],
                                                       n[e], isWebXRBlocked, TRUE)],
                                        Elements),
                         !.backs = Sum(n, Elements),
                         !.reruns = Sum(n, Elements),
                         !.hash = h]
                 ELSE [NoEv EXCEPT !.e = last, !.hash = h]
        /\ UNCHANGED <<isWebXRBlocked, platform, intent>>

Next ==
    \/ \E e \in Elements, ar \in BOOLEAN, tokens \in ArModesInputs, ios \in IosSrcs :
          Update(e, ar, tokens, ios)
    \/ \E e \in Elements : \E run \in BagToSet(el[e].runs) : ProbeResolves(e, run)
    \/ \E e \in Elements : ActivateAR(e)
    \/ \E e \in Elements : Click(e)
    \/ \E e \in Elements : ModelLoad(e)
    \/ \E e \in Elements : AfterLoad(e)
    \/ \E e \in Elements : PresentOk(e)
    \/ \E e \in Elements : PresentFail(e)
    \/ \E e \in Elements : StopDone(e)
    \/ \E e \in Elements : Retry(e)
    \/ \E h \in Hashes : HashChange(h)

Spec == Init /\ [][Next]_vars

\* ======================================================= Intent Builder
\* A string is a sequence of tokens: a token is one of the characters below
\* or a word, a run of characters none of which is one of them.
Delims == {"&", "=", "?", "#", ":", "/", ";", " "}

\* An optional value: undefined, or defined with value v.
Some(v) == [def |-> TRUE, v |-> v]
Undefined == [def |-> FALSE, v |-> <<>>]
UndefinedBool == [def |-> FALSE, v |-> FALSE]

\* Boolean.prototype.toString
booleanToString(b) == IF b THEN <<"true">> ELSE <<"false">>

\* The escape encodeURIComponent gives a character.
PercentCode(c) ==
    CASE c = "&" -> "%26"
      [] c = "=" -> "%3D"
      [] c = "?" -> "%3F"
      [] c = "#" -> "%23"
      [] c = ":" -> "%3A"
      [] c = "/" -> "%2F"
      [] c = ";" -> "%3B"
      [] c = " " -> "%20"
      [] OTHER   -> c

encodeURIComponent(text) == [i \in 1..Len(text) |-> PercentCode(text[i])]

RECURSIVE Join(_, _)
\* Array.prototype.join
Join(parts, sep) ==
    IF parts = <<>> THEN <<>>
    ELSE IF Len(parts) = 1 THEN parts[1]
    ELSE parts[1] \o <<sep>> \o Join(Tail(parts), sep)

\* String.prototype.includes
Includes(text, pattern) ==
    \E i \in 0..(Len(text) - Len(pattern)) :
        \A j \in 1..Len(pattern) : text[i + j] = pattern[j]

\* String.prototype.replace(c, ""): the first occurrence of c removed.
RemoveFirst(text, c) ==
    IF \E i \in 1..Len(text) : text[i] = c
    THEN LET k == CHOOSE i \in 1..Len(text) :
                    text[i] = c /\ \A j \in 1..(i - 1) : text[j] # c
         IN  SubSeq(text, 1, k - 1) \o SubSeq(text, k + 1, Len(text))
    ELSE text

\* A URL object: scheme and host are words; path, query and hash are
\* strings, query without its '?' and hash without its '#'.
URLRec(scheme, host, path, query, hash) ==
    [scheme |-> scheme, host |-> host, path |-> path, query |-> query,
     hash |-> hash]

\* URL.prototype.toString (href)
Href(u) ==
    <<u.scheme, ":", "/", "/", u.host>> \o u.path
        \o (IF u.query = <<>> THEN <<>> ELSE <<"?">> \o u.query)
        \o (IF u.hash = <<>> THEN <<>> ELSE <<"#">> \o u.hash)

\* URL.prototype.protocol
Protocol(u) == <<u.scheme, ":">>

\* self.location
Location ==
    URLRec("http", "localhost", <<"/", "shop", "/", "index.html">>, <<>>, <<>>)

\* Whether a reference starts with a scheme and an authority.
IsAbsolute(ref) ==
    Len(ref) >= 5 /\ ref[2] = ":" /\ ref[3] = "/" /\ ref[4] = "/"

\* The path of u up to its last '/'.
Directory(u) ==
    LET k == CHOOSE i \in 1..Len(u.path) :
                u.path[i] = "/" /\ \A j \in (i + 1)..Len(u.path) : u.path[j] # "/"
    IN  SubSeq(u.path, 1, k)

\* new URL(ref, base).toString(): an absolute reference is parsed as it is
\* (an empty path becomes '/'), a relative one is resolved against base.
NewURLHref(ref, base) ==
    IF IsAbsolute(ref)
    THEN IF Len(ref) = 5 THEN ref \o <<"/">> ELSE ref
    ELSE <<base.scheme, ":", "/", "/", base.host>> \o Directory(base) \o ref

\* ----------------------------------------------- Object.entries and filter
\* One [key, value] pair of Object.entries: whether the value is defined,
\* whether it is a function, and value.toString().
Entry(key, opt) == [key |-> <<key>>, def |-> opt.def, fn |-> FALSE, str |-> opt.v]

BoolEntry(key, opt) ==
    [key |-> <<key>>, def |-> opt.def, fn |-> FALSE, str |-> booleanToString(opt.v)]

\* The toURL property, an arrow function.
FnEntry(key) == [key |-> <<key>>, def |-> TRUE, fn |-> TRUE, str |-> <<"function">>]

\* The filter of every toURL (ar.ts 79, 118, 148, 161): value !== undefined,
\* not a function, value.toString() not empty.
Kept(entry) == entry.def /\ ~entry.fn /\ entry.str # <<>>

\* A faulty variant of mapKeys: the entry of link is missing.
mapKeysNoLink(key) ==
    CASE key = <<"title">>     -> <<"checkoutTitle">>
      [] key = <<"resizable">> -> <<"allowsContentScaling">>
      [] OTHER                 -> key

\* mapKeys[key] || key (ar.ts 73-77, 80)
mapKeys(key) ==
    CASE key = <<"title">>     -> <<"checkoutTitle">>
      [] key = <<"resizable">> -> <<"allowsContentScaling">>
      [] key = <<"link">>      -> <<"canonicalWebPageURL">>
      [] OTHER                 -> key

\* entries.filter(...).map(([key, value]) => ...): encoded, with the key
\* renamed by mapKeys and the value through encodeURIComponent (ar.ts 78-80,
\* 118-120); or key + "=" + value as they are (ar.ts 147-149, 160-163).
Segments(entries, encoded) ==
    LET kept == SelectSeq(entries, Kept)
    IN  [i \in 1..Len(kept) |->
            IF encoded
            THEN mapKeys(kept[i].key) \o <<"=">> \o encodeURIComponent(kept[i].str)
            ELSE kept[i].key \o <<"=">> \o kept[i].str]

\* ---------------------------------------------------- IOSIntentParameters
\* The own properties of an IOSIntentParameters, in the order the
\* constructor and the field initialiser set them (ar.ts 59-69).
IOSEntries(p) ==
    << Entry("title", p.title),
       Entry("checkoutSubtitle", p.checkoutSubtitle),
       Entry("price", p.price),
       BoolEntry("resizable", p.resizable),
       Entry("link", p.link),
       Entry("applePayButtonType", p.applePayButtonType),
       Entry("callToAction", p.callToAction),
       Entry("custom", p.custom),
       Entry("customHeight", p.customHeight),
       FnEntry("toURL") >>

\* IOSIntentParameters.toURL (ar.ts 69-82)
IOSIntentParametersToURL(p) ==
    Join(Segments(IOSEntries(p), TRUE), "&")

\* ------------------------------------------------ AndroidIntentParameters
\* value && (!value.includes("http://") || !value.includes("https://"))
\* (ar.ts 106, 109)
NeedsResolving(opt) ==
    /\ opt.def /\ opt.v # <<>>
    /\ \/ ~Includes(opt.v, <<"http", ":", "/", "/">>)
       \/ ~Includes(opt.v, <<"https", ":", "/", "/">>)

\* The parameters as AndroidIntentParameters.toURL leaves them
\* (ar.ts 106-111).
AndroidParametersResolved(p) ==
    [p EXCEPT !.link = IF NeedsResolving(@)
                       THEN Some(NewURLHref(@.v, Location)) ELSE @,
              !.sound = IF NeedsResolving(@)
                        THEN Some(NewURLHref(@.v, Location)) ELSE @]

AndroidEntries(p) ==
    << Entry("title", p.title),
       Entry("fallbackURL", p.fallbackURL),
       BoolEntry("resizable", p.resizable),
       Entry("link", p.link),
       Entry("sound", p.sound),
       FnEntry("toURL") >>

\* AndroidIntentParameters.toURL (ar.ts 99-121): what it returns.
AndroidIntentParametersToURL(p) ==
    Join(Segments(AndroidEntries(AndroidParametersResolved(p)), TRUE), "&")

\* ---------------------------------------------------------------- IOSIntent
\* The hash setter of URL: the fragment percent-encodes a space.
HashSetter(text) ==
    [i \in 1..Len(text) |-> IF text[i] = " " THEN "%20" ELSE text[i]]

\* The file of an IOSIntent as toURL leaves it (ar.ts 128-129): url is the
\* object this.file.
IOSIntentFileAfter(file, p) ==
    [file EXCEPT !.hash = HashSetter(IOSIntentParametersToURL(p))]

\* IOSIntent.toURL (ar.ts 127-131): what it returns.
IOSIntentToURL(file, p) == Href(IOSIntentFileAfter(file, p))

\* ------------------------------------------------------------ AndroidIntent
\* Whether text holds the character c.
Has(text, c) == \E i \in 1..Len(text) : text[i] = c

\* The index of the first c in text.
FirstIndex(text, c) ==
    CHOOSE i \in 1..Len(text) : text[i] = c /\ \A j \in 1..(i - 1) : text[j] # c

Before(text, c) == SubSeq(text, 1, FirstIndex(text, c) - 1)
After(text, c) == SubSeq(text, FirstIndex(text, c) + 1, Len(text))

RECURSIVE SplitOn(_, _)
\* String.prototype.split
SplitOn(text, c) ==
    IF Has(text, c)
    THEN <<Before(text, c)>> \o SplitOn(After(text, c), c)
    ELSE <<text>>

\* The character an escape stands for.
PercentDecode(c) ==
    CASE c = "%26" -> "&"
      [] c = "%3D" -> "="
      [] c = "%3F" -> "?"
      [] c = "%23" -> "#"
      [] c = "%3A" -> ":"
      [] c = "%2F" -> "/"
      [] c = "%3B" -> ";"
      [] c = "%20" -> " "
      [] c = "+"   -> " "
      [] OTHER     -> c

decodeForm(text) == [i \in 1..Len(text) |-> PercentDecode(text[i])]

\* The serializer of application/x-www-form-urlencoded.
encodeForm(text) ==
    [i \in 1..Len(text) |-> IF text[i] = " " THEN "+" ELSE PercentCode(text[i])]

NonEmpty(text) == text # <<>>

\* new URLSearchParams(query): the list of [name, value] pairs.
ParseQuery(query) ==
    LET segs == SelectSeq(SplitOn(query, "&"), NonEmpty)
    IN  [i \in 1..Len(segs) |->
            IF Has(segs[i], "=")
            THEN <<decodeForm(Before(segs[i], "=")), decodeForm(After(segs[i], "="))>>
            ELSE <<decodeForm(segs[i]), <<>>>>]

\* URLSearchParams.prototype.toString
SerializeQuery(pairs) ==
    Join([i \in 1..Len(pairs) |->
            encodeForm(pairs[i][1]) \o <<"=">> \o encodeForm(pairs[i][2])], "&")

\* String(value) of an optional string, as encodeURIComponent coerces it.
StringOf(opt) == IF opt.def THEN opt.v ELSE <<"undefined">>

\* The object params of AndroidIntent.toURL (ar.ts 139-145).
AndroidQueryEntries(file, p) ==
    << Entry("file", Some(Href(file))),
       Entry("mode", Some(<<"ar_only">>)),
       Entry("link", p.link),
       Entry("title", Some(encodeURIComponent(StringOf(p.title)))),
       BoolEntry("resizable", p.resizable) >>

\* paramString (ar.ts 146-150)
AndroidParamString(file, p) ==
    Join(<<SerializeQuery(ParseQuery(file.query))>>
            \o Segments(AndroidQueryEntries(file, p), FALSE), "&")

\* The object hashParams (ar.ts 152-158).
AndroidHashEntries(file, p) ==
    << Entry("scheme", Some(RemoveFirst(Protocol(file), ":"))),
       Entry("package", Some(<<"com.google.ar.core">>)),
       Entry("action", Some(<<"android.intent.action.VIEW">>)),
       Entry("S.browser_fallback_url",
             IF p.fallbackURL.def /\ p.fallbackURL.v # <<>>
             THEN Some(encodeURIComponent(p.fallbackURL.v))
             ELSE Undefined) >>

\* hashString (ar.ts 159-164)
AndroidHashString(file, p) ==
    <<"Intent", ";">>
        \o Join(Segments(AndroidHashEntries(file, p), FALSE), ";")
        \o <<";", "end", ";">>

IntentAuthority ==
    <<"intent", ":", "/", "/", "arvr.google.com", "/", "scene-viewer", "/", "1.0">>

\* AndroidIntent.toURL (ar.ts 137-167)
AndroidIntentToURL(file, p) ==
    IntentAuthority \o <<"?">> \o AndroidParamString(file, p)
        \o <<"#">> \o AndroidHashString(file, p)

\* --------------------------------------------- intent objects and toURL()
\* The values given to the title, a string (the element's default is '').
Titles == {Some(<<>>), Some(<<"bar">>), Some(<<"my", " ", "model">>)}

RelLink == <<"foo.html">>
AbsLink == <<"http", ":", "/", "/", "linkme.com", "/">>
RelSound == <<"bar.ogg">>
AbsSound == <<"https", ":", "/", "/", "example.com", "/", "bar.ogg">>
FallbackURL == <<"https", ":", "/", "/", "example.com", "/">>

Resizables == {UndefinedBool, Some(TRUE), Some(FALSE)}

IOSParameterSets ==
    [ title : Titles,
      checkoutSubtitle : {Some(<<>>), Some(<<"subtitle">>)},
      price : {Some(<<>>), Some(<<"price">>)},
      resizable : Resizables,
      link : {Undefined, Some(AbsLink)},
      applePayButtonType : {Undefined, Some(<<"pay">>)},
      callToAction : {Undefined},
      custom : {Undefined, Some(<<"path-to-banner.html">>)},
      customHeight : {Undefined, Some(<<"small">>)} ]

AndroidParameterSets ==
    [ title : Titles,
      fallbackURL : {Undefined, Some(<<>>), Some(FallbackURL)},
      resizable : Resizables,
      link : {Undefined, Some(RelLink), Some(AbsLink)},
      sound : {Undefined, Some(RelSound), Some(AbsSound)} ]

\* The file of an intent that has none (a parameters object on its own).
NoFile == URLRec("none", "none", <<>>, <<>>, <<>>)

UsdzFiles ==
    { URLRec("https", "example.com", <<"/", "model.usdz">>, <<>>, h) :
        h \in {<<>>, <<"old">>} }

GltfFiles ==
    { URLRec(s, "example.com", <<"/", "model.gltf">>, q, <<>>) :
        s \in {"https", "http"},
        q \in { <<>>, <<"token", "=", "foo">>,
                <<"a", "=", "1", "&", "b", "=", "2">> } }
      \cup { URLRec("https", "example.com", <<"/", "model.gltf">>, <<>>, <<"part">>) }

\* An object as its constructor leaves it: file0 and p0 keep the values it
\* was constructed with, out is what the last toURL() returned and prev what
\* the one before returned.
NewIntent(kind, file, p) ==
    [kind |-> kind, file |-> file, p |-> p, file0 |-> file, p0 |-> p,
     out |-> <<>>, prev |-> <<>>, calls |-> 0]

IntentObjects ==
    { NewIntent("IOSIntentParameters", NoFile, p) : p \in IOSParameterSets }
      \cup { NewIntent("AndroidIntentParameters", NoFile, p) : p \in AndroidParameterSets }
      \cup { NewIntent("IOSIntent", f, p) : f \in UsdzFiles, p \in IOSParameterSets }
      \cup { NewIntent("AndroidIntent", f, p) : f \in GltfFiles, p \in AndroidParameterSets }

IntentInit ==
    /\ el = [e \in Elements |-> InitElement]
    /\ isWebXRBlocked = FALSE
    /\ isSceneViewerBlocked = FALSE
    /\ platform = [webxr |-> FALSE, sceneViewer |-> FALSE, quickLook |-> FALSE,
                   xr |-> FALSE]
    /\ ev = NoEv
    /\ intent \in IntentObjects

\* One toURL() call on the object: it returns out and leaves file and p.
Called(file, p, out) ==
    /\ intent.calls < MaxCalls
    /\ intent' = [intent EXCEPT !.file = file, !.p = p, !.prev = intent.out,
                                !.out = out, !.calls = @ + 1]
    /\ UNCHANGED <<el, isWebXRBlocked, isSceneViewerBlocked, platform, ev>>

IOSIntentParametersCall ==
    /\ intent.kind = "IOSIntentParameters"
    /\ Called(intent.file, intent.p, IOSIntentParametersToURL(intent.p))

AndroidIntentParametersCall ==
    /\ intent.kind = "AndroidIntentParameters"
    /\ Called(intent.file, AndroidParametersResolved(intent.p),
              AndroidIntentParametersToURL(intent.p))

\* [$openIOSARQuickLook] hands iosIntent.toURL() to the anchor (ar.ts 521).
IOSIntentCall ==
    /\ intent.kind = "IOSIntent"
    /\ Called(IOSIntentFileAfter(intent.file, intent.p), intent.p,
              IOSIntentToURL(intent.file, intent.p))

\* [$openSceneViewer] hands androidIntent.toURL() to the anchor (ar.ts 506).
AndroidIntentCall ==
    /\ intent.kind = "AndroidIntent"
    /\ Called(intent.file, intent.p, AndroidIntentToURL(intent.file, intent.p))

IntentNext ==
    \/ IOSIntentParametersCall
    \/ AndroidIntentParametersCall
    \/ IOSIntentCall
    \/ AndroidIntentCall

IntentSpec == IntentInit /\ [][IntentNext]_vars

\* =============================================================== claims
\* The element the last step ran on, and the run it executed.
LastEl == el[ev.e]
LastRun == ev.run
RunCompleted == ev.e \in Elements /\ LastRun.kind \in {"sync", "resumed"}
RunStarted == ev.e \in Elements /\ LastRun.kind \in {"sync", "suspended"}

Range(f) == {f[i] : i \in DOMAIN f}

\* The gate of a mode as section 4.1 of the specification states it, on the
\* current state of element s.
GateHolds(m, s) ==
    CASE m = "webxr" -> platform.webxr /\ ~isWebXRBlocked /\ platform.xr
      [] m = "scene-viewer" -> platform.sceneViewer /\ ~isSceneViewerBlocked
      [] m = "quick-look" -> s.iosSrc # NoSrc /\ platform.quickLook
      [] OTHER -> FALSE

\* The gate of the entry a run evaluates in the step that evaluates it: of
\* 'webxr', the part before the await when the step ends at the probe, and
\* the answer of the probe when the step starts from it.
GateAtEvaluation(m, s, resumedHere) ==
    IF m = "webxr"
    THEN IF resumedHere THEN platform.xr
         ELSE platform.webxr /\ ~isWebXRBlocked
    ELSE GateHolds(m, s)

\* Mode Selector as a function of the current inputs of element s.
SelectMode(s) ==
    IF s.ar /\ \E i \in DOMAIN s.modes : GateHolds(s.modes[i], s)
    THEN s.modes[CHOOSE i \in DOMAIN s.modes :
                    /\ GateHolds(s.modes[i], s)
                    /\ \A j \in 1..(i - 1) : ~GateHolds(s.modes[j], s)]
    ELSE "none"

C3_DisabledShortCircuit ==
    (RunStarted /\ ~LastEl.ar) =>
        /\ LastRun.kind = "sync"
        /\ LastRun.mode = "none"
        /\ LastEl.arMode = "none"

\* C3 witness: ar is false on an element whose list starts with a 'webxr'
\* entry that would be probed.
C3_Witness ==
    /\ RunStarted
    /\ ~LastEl.ar
    /\ LastEl.modes # <<>>
    /\ LastEl.modes[1] = "webxr"
    /\ platform.webxr /\ ~isWebXRBlocked /\ platform.xr

C5_FailedOnDisable ==
    [][ /\ \A e \in Elements :
              /\ (el[e].enabled /\ ~el'[e].enabled) =>
                    ev'.e = e /\ ev'.failed = 1
              /\ canActivateAR(el'[e]) => el'[e].enabled
        /\ ev'.failed \in {0, 1}
        /\ ev'.failed = 1 =>
              /\ ev'.e \in Elements
              /\ ev'.run.kind \in {"sync", "resumed"}
              /\ ev'.run.mode = "none"
              /\ el[ev'.e].enabled /\ ~el'[ev'.e].enabled
              /\ ~canActivateAR(el'[ev'.e])
      ]_vars

\* C5 witness: a run ended with 'none' on an enabled button and emitted the
\* event.
C5_Witness ==
    /\ RunCompleted
    /\ ev.failed = 1
    /\ ~LastEl.enabled
    /\ ~canActivateAR(LastEl)

\* C5 as stated: every step in which canActivateAR goes from true to false
\* emits one 'failed' event, and a step emits none when the element was
\* not activatable before it.
C5_Original ==
    [][ \A e \in Elements :
          /\ (canActivateAR(el[e]) /\ ~canActivateAR(el'[e])) =>
                (ev'.e = e /\ ev'.failed = 1)
          /\ (ev'.e = e /\ ev'.failed > 0) => canActivateAR(el[e])
      ]_vars

\* C6 as stated: a hash change that lands on the sigil after Scene Viewer
\* was activated (any number of times) sets the Scene Viewer flag, goes
\* back in history once and starts one Mode Selector run; any other hash
\* change goes back zero times and starts no run.
C6_OneShot ==
    ev.hash # "none" =>
        IF IsFallbackHash(ev.hash)
        THEN isSceneViewerBlocked /\ ev.backs = 1 /\ ev.reruns = 1
        ELSE ev.backs = 0 /\ ev.reruns = 0

ActsAt(s, pc) == {a \in BagToSet(s.acts) : a.pc = pc}

\* C8: the order of the WebXR failure path. The step that calls
\* stopPresenting() neither sets the flag nor runs the Mode Selector nor
\* re-attempts; the step that sets isWebXRBlocked follows the await of
\* stopPresenting(), runs the Mode Selector to its end in the same step with
\* the flag set, and leaves a mode other than webxr; the re-attempt follows
\* the await of that run with the flag set, is one activateAR() call, reads
\* a mode other than webxr (the mode that run left, unless update() started
\* a newer run meanwhile) and calls present() zero times.
C8_FailurePath ==
    [][ /\ ev'.stops = 1 =>
              /\ ActsAt(el[ev'.e], "presenting") # {}
              /\ ActsAt(el'[ev'.e], "stopping") # {}
              /\ isWebXRBlocked' = isWebXRBlocked
              /\ ev'.blocks = 0 /\ ev'.run.kind = "none" /\ ev'.retries = 0
        /\ ev'.blocks = 1 =>
              /\ ActsAt(el[ev'.e], "stopping") # {}
              /\ isWebXRBlocked'
              /\ ev'.stops = 0 /\ ev'.retries = 0
              /\ ev'.run.kind = "sync"
              /\ ev'.run.mode # "webxr"
              /\ ActsAt(el'[ev'.e], "awaitSelect")
                    = {ActRec("awaitSelect", ev'.run.mode)}
        /\ isWebXRBlocked' # isWebXRBlocked => ev'.blocks = 1
        /\ ev'.retries > 0 =>
              /\ ActsAt(el[ev'.e], "awaitSelect") # {}
              /\ isWebXRBlocked
              /\ ev'.retries = 1
              /\ ev'.stops = 0 /\ ev'.blocks = 0
              /\ ev'.retryMode # "webxr"
              /\ ev'.retryMode = el[ev'.e].arMode
              /\ ev'.retrySel # "superseded" => ev'.retryMode = ev'.retrySel
              /\ ev'.presents = 0
      ]_vars

\* C8 witness: after a failed present() the re-attempt opened Scene Viewer,
\* the mode the awaited run left.
C8_Witness ==
    /\ ev.retries = 1
    /\ ev.retrySel = "scene-viewer"
    /\ ev.retryMode = "scene-viewer"
    /\ ev.clicks = "scene-viewer"
    /\ isWebXRBlocked

\* C9: no step of the WebXR failure path rejects the promise of the
\* activateAR() call that entered WebXR: not the step in which present()
\* failed, not the step that blocks WebXR, and not the re-attempt, whose own
\* rejection stays with the promise of the nested call.
C9_FailureNotSurfaced ==
    (ev.stops > 0 \/ ev.blocks > 0 \/ ev.retries > 0) =>
        /\ ev.rejected # "call"
        /\ ev.retries = 0 => ev.rejected = "none"

\* C9 witness: the re-attempt threw (quick-look with an ios-src that is not
\* an absolute URL) and the rejection stayed with the nested call.
C9_Witness ==
    /\ ev.retries = 1
    /\ ev.retryMode = "quick-look"
    /\ ev.rejected = "nested"

\* C10: present() is called only on a loaded model; an activateAR() call
\* waiting for 'load' has set the preload flag on a model that is not
\* loaded; a present() that followed the wait was called after the load;
\* the preload flag is true only while some call's wait is pending.
C10_WaitsForLoad ==
    /\ (ev.e \in Elements /\ ev.presents > 0) => LastEl.loaded
    /\ ev.waited => (LastEl.loaded /\ ev.presents = 1)
    /\ \A e \in Elements :
          /\ ActsAt(el[e], "waitLoad") # {} =>
                (el[e].preload /\ ~el[e].loaded)
          /\ el[e].preload =>
                (ActsAt(el[e], "waitLoad") \cup ActsAt(el[e], "loadFired")) # {}

\* C10 witness: present() was called by the continuation of the wait for
\* 'load', which cleared the preload flag.
C10_Witness ==
    /\ ev.waited
    /\ ev.presents = 1
    /\ LastEl.loaded
    /\ ~LastEl.preload
    /\ ActsAt(LastEl, "presenting") # {}

\* C11: an activateAR() call that reads the mode 'none' does nothing: its
\* promise does not reject, the anchor is not clicked, present() is not
\* called, no 'hashchange' listener is armed, and the element (its mode
\* included) and both blocked flags are as before the call.
C11_NoneDoesNothing ==
    [][ ev'.called = "none" =>
          /\ ev'.rejected = "none"
          /\ ev'.clicks = "none"
          /\ ev'.presents = 0
          /\ el'[ev'.e].hashL = el[ev'.e].hashL
          /\ el' = el
          /\ isWebXRBlocked' = isWebXRBlocked
          /\ isSceneViewerBlocked' = isSceneViewerBlocked
      ]_vars

\* C11 witness: activateAR() was called on an element with ar enabled whose
\* completed Mode Selector run left 'none'.
C11_Witness ==
    /\ ev.called = "none"
    /\ LastEl.ar
    /\ LastEl.updated
    /\ LastEl.runs = EmptyBag
    /\ ~canActivateAR(LastEl)

\* ------------------------------------------- reading a serialized intent
\* The parts of a URL string, as the URL parser splits it: the fragment
\* starts at the first '#', the query at the first '?' before it.
BeforeFragment(url) == IF Has(url, "#") THEN Before(url, "#") ELSE url
FragmentOf(url) == IF Has(url, "#") THEN After(url, "#") ELSE <<>>
QueryOf(url) ==
    IF Has(BeforeFragment(url), "?") THEN After(BeforeFragment(url), "?") ELSE <<>>

\* The key=value segments of a string, as written.
SegmentsOf(text, sep) == IF text = <<>> THEN <<>> ELSE SplitOn(text, sep)

\* URLSearchParams.prototype.get and the number of pairs named key.
Values(pairs, key) == {i \in DOMAIN pairs : pairs[i][1] = <<key>>}
Get(pairs, key) ==
    pairs[CHOOSE i \in Values(pairs, key) : \A j \in Values(pairs, key) : i <= j]

Supplied(opt) == opt.def /\ opt.v # <<>>
Toured(kind) == intent.kind = kind /\ intent.calls > 0

\* C12 as stated: the query of the intent URI of a file URL with query
\* parameters holds each of them, key and value, exactly once as a
\* top-level parameter, and its 'file' parameter is the file URL.
C12_QueryPreserved ==
    (Toured("AndroidIntent") /\ intent.file0.query # <<>>) =>
        LET pairs == ParseQuery(QueryOf(intent.out))
            given == ParseQuery(intent.file0.query)
        IN  /\ \A i \in DOMAIN given :
                  Cardinality({j \in DOMAIN pairs : pairs[j] = given[i]}) = 1
            /\ Cardinality(Values(pairs, "file")) = 1
            /\ Get(pairs, "file")[2] = Href(intent.file0)

\* C13 as stated: the intent URI of the Scene Viewer activation has a 'link'
\* and a 'sound' parameter for a link and a sound that were given, each an
\* absolute URL, and the value as given when that was absolute.
C13_AbsoluteReferences ==
    Toured("AndroidIntent") =>
        LET pairs == ParseQuery(QueryOf(intent.out))
            absolute(key, opt) ==
                Supplied(opt) =>
                    /\ Values(pairs, key) # {}
                    /\ IsAbsolute(Get(pairs, key)[2])
                    /\ IsAbsolute(opt.v) => Get(pairs, key)[2] = opt.v
        IN  /\ absolute("link", intent.p0.link)
            /\ absolute("sound", intent.p0.sound)

\* C14 as stated: the URL of an IOSIntent is the file URL with its path
\* unchanged and a fragment that holds allowsContentScaling=0 when
\* resizable is false and allowsContentScaling=1 when it is true.
C14_ContentScaling ==
    (Toured("IOSIntent") /\ intent.p0.resizable.def) =>
        /\ BeforeFragment(intent.out) = BeforeFragment(Href(intent.file0))
        /\ \E i \in DOMAIN SegmentsOf(FragmentOf(intent.out), "&") :
              SegmentsOf(FragmentOf(intent.out), "&")[i]
                = <<"allowsContentScaling", "=",
                    IF intent.p0.resizable.v THEN "1" ELSE "0">>

\* The fields of an IOSIntentParameters, the key Quick Look reads each
\* under, and the string of a field's value.
IOSFields ==
    << "title", "checkoutSubtitle", "price", "resizable", "link",
       "applePayButtonType", "callToAction", "custom", "customHeight" >>
QuickLookKey(field) ==
    CASE field = "title"     -> "checkoutTitle"
      [] field = "resizable" -> "allowsContentScaling"
      [] field = "link"      -> "canonicalWebPageURL"
      [] OTHER               -> field
TextOf(p, field) ==
    IF field = "resizable"
    THEN (IF p[field].v THEN <<"true">> ELSE <<"false">>)
    ELSE p[field].v
Present(p, field) == p[field].def /\ TextOf(p, field) # <<>>
PresentFields(p) ==
    LET present(field) == Present(p, field) IN SelectSeq(IOSFields, present)

\* decodeURIComponent
Unescape(text) ==
    [i \in 1..Len(text) |-> IF text[i] = "+" THEN "+" ELSE PercentDecode(text[i])]
Escaped(text) == \A i \in 1..Len(text) : text[i] \notin Delims

\* C15: the string IOSIntentParameters.toURL() returns is the '&'-joined
\* list of one key=value segment per present field, in field order: the key
\* is checkoutTitle for title, allowsContentScaling for resizable,
\* canonicalWebPageURL for link and the field's own name otherwise, and the
\* value is the field's value percent-encoded.
C15_FieldNaming ==
    Toured("IOSIntentParameters") =>
        LET segs == SegmentsOf(intent.out, "&")
            fields == PresentFields(intent.p0)
        IN  /\ Len(segs) = Len(fields)
            /\ \A i \in DOMAIN segs :
                  /\ Has(segs[i], "=")
                  /\ Before(segs[i], "=") = <<QuickLookKey(fields[i])>>
                  /\ Escaped(After(segs[i], "="))
                  /\ Unescape(After(segs[i], "=")) = TextOf(intent.p0, fields[i])

\* A serialized parameters object with a title that needs escaping, a link
\* and a custom banner beside allowsContentScaling.
C15_Witness ==
    /\ Toured("IOSIntentParameters")
    /\ intent.p0.title = Some(<<"my", " ", "model">>)
    /\ intent.p0.link.def /\ intent.p0.resizable.def
    /\ \E i, j \in DOMAIN SegmentsOf(intent.out, "&") :
          /\ SegmentsOf(intent.out, "&")[i] = <<"custom", "=", "path-to-banner.html">>
          /\ Before(SegmentsOf(intent.out, "&")[j], "=") = <<"allowsContentScaling">>

\* The key=value segments of the outputs: of a parameters object, the whole
\* string; of an IOSIntent, the fragment; of an AndroidIntent, the query
\* and the Intent block between 'Intent;' and ';end;'.
Filled(seg) ==
    /\ Has(seg, "=")
    /\ Before(seg, "=") # <<>>
    /\ After(seg, "=") \notin {<<>>, <<"undefined">>}
AllFilled(segs) == \A i \in DOMAIN segs : Filled(segs[i])
HasKey(segs, key) ==
    \E i \in DOMAIN segs : Has(segs[i], "=") /\ Before(segs[i], "=") = <<key>>

\* C16 as stated: no toURL() output has a key whose value is undefined or
\* empty, nor an empty key=value segment, and every present, non-empty
\* field of the parameters has its segment.
C16_FilterInvariant ==
    /\ Toured("IOSIntentParameters") =>
          /\ AllFilled(SegmentsOf(intent.out, "&"))
          /\ Len(SegmentsOf(intent.out, "&")) = Len(PresentFields(intent.p0))
    /\ Toured("IOSIntent") =>
          /\ AllFilled(SegmentsOf(FragmentOf(intent.out), "&"))
          /\ Len(SegmentsOf(FragmentOf(intent.out), "&"))
               = Len(PresentFields(intent.p0))
    /\ Toured("AndroidIntentParameters") =>
          /\ AllFilled(SegmentsOf(intent.out, "&"))
          /\ \A f \in {"title", "fallbackURL", "link", "sound"} :
                Supplied(intent.p0[f]) =>
                    HasKey(SegmentsOf(intent.out, "&"), QuickLookKey(f))
    /\ Toured("AndroidIntent") =>
          /\ AllFilled(SegmentsOf(QueryOf(intent.out), "&"))
          /\ \A f \in {"title", "link", "sound"} :
                Supplied(intent.p0[f]) =>
                    HasKey(SegmentsOf(QueryOf(intent.out), "&"), f)

\* The entries of the Intent block of an intent URI: the fragment between
\* its 'Intent;' head and its ';end;' tail.
IntentBlock(url) ==
    LET parts == SegmentsOf(FragmentOf(url), ";")
    IN  IF Len(parts) >= 3 /\ parts[1] = <<"Intent">>
           /\ parts[Len(parts) - 1] = <<"end">> /\ parts[Len(parts)] = <<>>
        THEN SubSeq(parts, 2, Len(parts) - 2)
        ELSE <<>>
HasSegment(segs, seg) == \E i \in DOMAIN segs : segs[i] = seg

\* C17 as stated: the URI of every AndroidIntent reads
\* intent://arvr.google.com/scene-viewer/1.0?<query>#Intent;...;end; with
\* mode=ar_only in the query, title=<percent-encoded title> and
\* link=<link> when supplied, and an Intent block of the file URL's
\* scheme, the ARCore package, the VIEW action and, exactly when a fallback
\* URL is configured, its percent-encoded S.browser_fallback_url.
C17_IntentShape ==
    Toured("AndroidIntent") =>
        LET query == SegmentsOf(QueryOf(intent.out), "&")
            block == IntentBlock(intent.out)
            p == intent.p0
        IN  /\ Has(intent.out, "?")
            /\ Before(intent.out, "?")
                 = <<"intent", ":", "/", "/", "arvr.google.com", "/",
                     "scene-viewer", "/", "1.0">>
            /\ HasSegment(query, <<"mode", "=", "ar_only">>)
            /\ Supplied(p.title) =>
                  /\ HasKey(query, "title")
                  /\ \A i \in DOMAIN query :
                        (Has(query[i], "=") /\ Before(query[i], "=") = <<"title">>)
                            => /\ Escaped(After(query[i], "="))
                               /\ Unescape(After(query[i], "=")) = p.title.v
            /\ Supplied(p.link) =>
                  HasSegment(query, <<"link", "=">> \o p.link.v)
            /\ HasSegment(block, <<"scheme", "=", intent.file0.scheme>>)
            /\ HasSegment(block, <<"package", "=", "com.google.ar.core">>)
            /\ HasSegment(block, <<"action", "=", "android.intent.action.VIEW">>)
            /\ Supplied(p.fallbackURL) <=> HasKey(block, "S.browser_fallback_url")
            /\ Supplied(p.fallbackURL) =>
                  /\ \A i \in DOMAIN block :
                        Before(block[i], "=") = <<"S.browser_fallback_url">>
                            => /\ Escaped(After(block[i], "="))
                               /\ Unescape(After(block[i], "=")) = p.fallbackURL.v

\* C19 as stated: toURL() leaves the file URL and every parameter field of
\* the object it is called on as they were constructed, and a second call
\* returns the string of the first.
C19_Immutable ==
    intent.calls > 0 =>
        /\ intent.file = intent.file0
        /\ intent.p = intent.p0
        /\ intent.calls > 1 => intent.out = intent.prev

\* C18: the step in which an activateAR() call that reached present()
\* leaves [$enterARWithWebXR], after present() resolved or after the
\* failure handling (stopPresenting(), the awaited run, the re-attempt),
\* starts a Mode Selector run on its element; a run that meets no probe
\* leaves the mode it selected and the button enabled exactly when AR can
\* be activated.
C18_RerunAfterPresent ==
    [][ ev'.settled # "no" =>
          /\ ev'.e \in Elements
          /\ ev'.run.kind \in {"sync", "suspended"}
          /\ ev'.run.kind = "suspended" =>
                /\ el'[ev'.e].arMode = "none"
                /\ BagCardinality(el'[ev'.e].runs) > 0
          /\ ev'.run.kind = "sync" =>
                /\ el'[ev'.e].arMode = ev'.run.mode
                /\ canActivateAR(el'[ev'.e]) => el'[ev'.e].enabled ]_vars

\* The failure outcome: present() rejected, the catch block has re-attempted
\* and the finally block has started its run.
C18_Witness ==
    /\ ev.settled = "rejected" /\ ev.retries = 1
    /\ ev.run.kind = "sync" /\ isWebXRBlocked

\* The success outcome.
C18_WitnessResolved == ev.settled = "resolved" /\ ev.run.kind \in {"sync", "suspended"}

\* The asynchronous operations in flight for an element: the probes of its
\* suspended Mode Selector runs, and the activateAR() calls that await the
\* 'load' event or present().
AwaitingCalls(s) ==
    LET at == {a \in BagToSet(s.acts) : a.pc \in {"waitLoad", "presenting"}}
    IN  BagCardinality([a \in at |-> CopiesIn(a, s.acts)])
InFlight(s) == BagCardinality(s.runs) + AwaitingCalls(s)

\* C20 as stated: at most one asynchronous operation is in flight for an
\* element in every reachable state.
C20_Original == \A e \in Elements : InFlight(el[e]) <= 1

\* C20: the operations are awaited one after the other within one Mode
\* Selector run: a run is suspended on one probe, at the one 'webxr' entry
\* of its list, and the step that resumes it ends it without a second
\* probe. (Runs and calls of different triggers are not serialized.)
C20_SequentialWithinRun ==
    [][ /\ \A e \in Elements : \A run \in BagToSet(el'[e].runs) :
              /\ run.idx \in DOMAIN run.list
              /\ \A j \in DOMAIN run.list :
                    run.list[j] = "webxr" <=> j = run.idx
        /\ ev'.run.kind \in {"resumed", "probedAgain"} =>
              /\ ev'.run.kind = "resumed"
              /\ BagCardinality(el'[ev'.e].runs)
                   = BagCardinality(el[ev'.e].runs) - 1 ]_vars

\* A run was resumed and ended while another run of the same element is
\* still suspended on its own probe.
C20_Witness ==
    /\ ev.run.kind = "resumed"
    /\ BagCardinality(LastEl.runs) > 0

\* C21: both blocked flags start false and no step returns one from true
\* to false; the step that sets isWebXRBlocked is the catch block of an
\* activateAR() call whose present() failed, after its stopPresenting();
\* the step that sets isSceneViewerBlocked is a 'hashchange' event with the
\* hash equal to the sigil, dispatched to a listener that a Scene Viewer
\* activation armed.
C21_BlockedFlags ==
    /\ ~isWebXRBlocked /\ ~isSceneViewerBlocked
    /\ [][ /\ isWebXRBlocked => isWebXRBlocked'
           /\ isSceneViewerBlocked => isSceneViewerBlocked'
           /\ (~isWebXRBlocked /\ isWebXRBlocked') =>
                 /\ ev'.e \in Elements
                 /\ ev'.blocks = 1
                 /\ ActsAt(el[ev'.e], "stopping") # {}
           /\ (~isSceneViewerBlocked /\ isSceneViewerBlocked') =>
                 /\ ev'.hash = noArViewerSigil
                 /\ ev'.backs > 0
                 /\ \E e \in Elements : el[e].hashL > 0 ]_vars

\* Both flags set in one session: a failed present(), then a Scene Viewer
\* activation that fell back to the page with the sigil.
C21_Witness ==
    /\ isWebXRBlocked /\ isSceneViewerBlocked
    /\ ev.hash = noArViewerSigil /\ ev.backs > 0

\* An element at rest and disabled: ar is false, no Mode Selector run is
\* suspended, the element is not activatable and its button not enabled.
DisabledAtRest(s) ==
    /\ ~s.ar
    /\ s.runs = EmptyBag
    /\ ~canActivateAR(s)
    /\ ~s.enabled

\* C22 as stated: with ar false and no run in flight, canActivateAR is
\* false and the button is not enabled.
C22_Original ==
    \A e \in Elements :
        (~el[e].ar /\ el[e].runs = EmptyBag) =>
            (~canActivateAR(el[e]) /\ ~el[e].enabled)

\* C22 (as amended): the step that switches ar off while no run is
\* suspended on the probe leaves the element at rest and disabled, and so
\* does every step on an element at rest and disabled that leaves ar false.
C22_DisabledAtRest ==
    [][ \A e \in Elements :
          /\ (el[e].ar /\ ~el'[e].ar /\ el[e].runs = EmptyBag) =>
                DisabledAtRest(el'[e])
          /\ (DisabledAtRest(el[e]) /\ ~el'[e].ar) =>
                DisabledAtRest(el'[e]) ]_vars

\* ar was switched off on an element with an enabled button and no run in
\* flight: the run of that step took the button off.
C22_Witness ==
    /\ ev.e \in Elements
    /\ LastRun.kind = "sync" /\ ~LastRun.ar
    /\ ev.failed = 1
    /\ DisabledAtRest(LastEl)

\* C23 as stated: no step taken with isWebXRBlocked set calls present().
C23_Original == [][ isWebXRBlocked => ev'.presents = 0 ]_vars

\* An element with no Mode Selector run suspended on the probe and no
\* activateAR() call inside [$enterARWithWebXR].
AtRest(s) == s.runs = EmptyBag /\ s.acts = EmptyBag

\* C24: on an element at rest the AR button has the class 'enabled' and
\* the click listener exactly when canActivateAR is true, and has neither
\* when it is false.
C24_ButtonConsistent ==
    \A e \in Elements :
        AtRest(el[e]) =>
            /\ (el[e].enabled /\ el[e].clickL) <=> canActivateAR(el[e])
            /\ ~canActivateAR(el[e]) => (~el[e].enabled /\ ~el[e].clickL)

\* A WebXR entry ended with present() resolved and the run of its finally
\* block met no probe: the element is at rest and activatable, and the
\* listener the try block took off is attached again.
C24_Witness ==
    /\ ev.settled = "resolved"
    /\ LastRun.kind = "sync"
    /\ AtRest(LastEl)
    /\ canActivateAR(LastEl) /\ LastEl.enabled /\ LastEl.clickL

\* A run resumed from the probe left the element at rest and activatable.
C24_WitnessResumed ==
    /\ LastRun.kind = "resumed"
    /\ AtRest(LastEl)
    /\ canActivateAR(LastEl) /\ LastEl.enabled /\ LastEl.clickL

====
